---- MODULE Spec2Model ----
(***************************************************************************)
(* A model of YarnParser2.0.py: parse_yarn_to_csv reads a .yarn file,      *)
(* scans it line by line and writes one CSV row per dialogue line/choice.  *)
(*                                                                         *)
(* Python strings are modelled as sequences of one-character strings, so   *)
(* that strip, startswith, split and the regular expressions of the source *)
(* are computed character by character.                                    *)
(***************************************************************************)
EXTENDS Integers, Sequences, FiniteSets, TLC

(***************************************************************************)
(* Bounds of the model.                                                    *)
(***************************************************************************)
\* longest input file built from ShortLines, in lines
MaxLines == 4
\* longest single body line built from Tokens, in tokens
MaxToks == 4

(***************************************************************************)
(* String helpers: str.strip, str.startswith, str.split, str.lower,        *)
(* str.lstrip(chars), f-string formatting of an int.                       *)
(***************************************************************************)
IsSpace(c) == c = " "

RECURSIVE LStripWs(_)
LStripWs(s) ==
    IF s # <<>> /\ IsSpace(Head(s)) THEN LStripWs(Tail(s)) ELSE s

RECURSIVE RStripWs(_)
RStripWs(s) ==
    IF s # <<>> /\ IsSpace(s[Len(s)]) THEN RStripWs(SubSeq(s, 1, Len(s) - 1)) ELSE s

\* s.strip()
Strip(s) == RStripWs(LStripWs(s))

\* s.startswith(p)
StartsWith(s, p) == Len(s) >= Len(p) /\ SubSeq(s, 1, Len(p)) = p

\* index of the first occurrence of character c in s at or after i, 0 if none
RECURSIVE IndexFrom(_, _, _)
IndexFrom(s, c, i) ==
    IF i > Len(s) THEN 0
    ELSE IF s[i] = c THEN i
    ELSE IndexFrom(s, c, i + 1)

\* s.split(':', 1)[1], for an s that holds a colon
SplitColon1(s) == SubSeq(s, IndexFrom(s, ":", 1) + 1, Len(s))

\* c.lower() on the letters of the model's alphabet
LowerChar(c) ==
    CASE c = "L" -> "l"
      [] c = "I" -> "i"
      [] c = "N" -> "n"
      [] c = "E" -> "e"
      [] OTHER -> c

\* s.lower()
Lower(s) == [k \in 1..Len(s) |-> LowerChar(s[k])]

\* s.lstrip(chars): drops every leading character that is in the set chars
RECURSIVE LStripChars(_, _)
LStripChars(s, chars) ==
    IF s # <<>> /\ Head(s) \in chars THEN LStripChars(Tail(s), chars) ELSE s

DigitChar(d) == <<"0", "1", "2", "3", "4", "5", "6", "7", "8", "9">>[d + 1]

\* str(n) for n >= 0, as f"{n}" formats it
RECURSIVE Decimal(_)
Decimal(n) ==
    IF n < 10 THEN <<DigitChar(n)>>
    ELSE Decimal(n \div 10) \o <<DigitChar(n % 10)>>

\* "; ".join(strs)
RECURSIVE Join(_)
Join(strs) ==
    IF strs = <<>> THEN <<>>
    ELSE IF Len(strs) = 1 THEN strs[1]
    ELSE strs[1] \o <<";", " ">> \o Join(Tail(strs))

(***************************************************************************)
(* Literals of the source.                                                 *)
(***************************************************************************)
NO_TITLE == <<"N", "O", "_", "T", "I", "T", "L", "E">>
TitlePrefix == <<"t", "i", "t", "l", "e", ":">>
BodyStart == <<"-", "-", "-">>
NodeEnd == <<"=", "=", "=">>
CommentPrefix == <<"/", "/">>
CommandPrefix == <<"<", "<">>
LinePrefix == <<"l", "i", "n", "e", ":">>
ChoicePrefix == <<"-", ">">>
AutoPrefix == <<"a", "u", "t", "o", "_", "i", "d", "_">>
header ==
    << <<"l", "i", "n", "e", "_", "i", "d">>,
       <<"n", "o", "d", "e", "_", "t", "i", "t", "l", "e">>,
       <<"c", "h", "a", "r", "a", "c", "t", "e", "r", "_", "n", "a", "m", "e">>,
       <<"t", "e", "x", "t">>,
       <<"t", "a", "g", "s">> >>

(***************************************************************************)
(* The regular expressions of the source, as the matcher runs them.        *)
(***************************************************************************)
\* last index of the run of non-whitespace characters that starts at i (\S+)
RECURSIVE NonSpaceRunEnd(_, _)
NonSpaceRunEnd(s, i) ==
    IF i + 1 <= Len(s) /\ ~IsSpace(s[i + 1]) THEN NonSpaceRunEnd(s, i + 1) ELSE i

\* whether #\S+ matches at position i
TagAt(s, i) == s[i] = "#" /\ i + 1 <= Len(s) /\ ~IsSpace(s[i + 1])

\* re.findall(r'#(\S+)', s), scanning from position i
RECURSIVE FindTagsFrom(_, _)
FindTagsFrom(s, i) ==
    IF i > Len(s) THEN <<>>
    ELSE IF TagAt(s, i)
         THEN LET e == NonSpaceRunEnd(s, i + 1)
              IN  <<SubSeq(s, i + 1, e)>> \o FindTagsFrom(s, e + 1)
         ELSE FindTagsFrom(s, i + 1)

FindTags(s) == FindTagsFrom(s, 1)

\* re.sub(r'#\S+', '', s), scanning from position i
RECURSIVE SubTagsFrom(_, _)
SubTagsFrom(s, i) ==
    IF i > Len(s) THEN <<>>
    ELSE IF TagAt(s, i)
         THEN SubTagsFrom(s, NonSpaceRunEnd(s, i + 1) + 1)
         ELSE <<s[i]>> \o SubTagsFrom(s, i + 1)

SubTags(s) == SubTagsFrom(s, 1)

\* whether the two-character token tok stands at position i of s
TokAt(s, tok, i) == i + 1 <= Len(s) /\ s[i] = tok[1] /\ s[i + 1] = tok[2]

\* the greedy .* of <<.*>>: the last position j >= from where >> stands, 0 if none
RECURSIVE LastCloseFrom(_, _, _)
LastCloseFrom(s, from, j) ==
    IF j < from THEN 0
    ELSE IF TokAt(s, <<">", ">">>, j) THEN j
    ELSE LastCloseFrom(s, from, j - 1)

CloseFor(s, i) == LastCloseFrom(s, i + 2, Len(s) - 1)

\* re.sub(r'<<.*>>', '', s), scanning from position i
RECURSIVE SubCondFrom(_, _)
SubCondFrom(s, i) ==
    IF i > Len(s) THEN <<>>
    ELSE IF TokAt(s, <<"<", "<">>, i) /\ CloseFor(s, i) # 0
         THEN SubCondFrom(s, CloseFor(s, i) + 2)
         ELSE <<s[i]>> \o SubCondFrom(s, i + 1)

\* <<.*?>> instead: every span from a << to the nearest >> after it is removed
RECURSIVE SubCondShortestFrom(_, _)
SubCondShortestFrom(s, i) ==
    IF i > Len(s) THEN <<>>
    ELSE IF TokAt(s, <<"<", "<">>, i) /\ CloseFor(s, i) # 0
         THEN LET j == CHOOSE j \in (i + 2)..(Len(s) - 1) :
                           /\ TokAt(s, <<">", ">">>, j)
                           /\ \A m \in (i + 2)..(j - 1) : ~TokAt(s, <<">", ">">>, m)
              IN  SubCondShortestFrom(s, j + 2)
         ELSE <<s[i]>> \o SubCondShortestFrom(s, i + 1)

SubCondShortest(s) == SubCondShortestFrom(s, 1)

SubCond(s) == SubCondFrom(s, 1)

\* last index of the run of non-colon characters that starts at 1 ([^:]+), 0 if
\* the run is empty
RECURSIVE NonColonRunEnd(_, _)
NonColonRunEnd(s, i) ==
    IF i + 1 <= Len(s) /\ s[i + 1] # ":" THEN NonColonRunEnd(s, i + 1) ELSE i

\* re.match(r'([^:]+):\s*(.*)', s): [matched, g1, g2]
SpeakerMatch(s) ==
    LET e == NonColonRunEnd(s, 0)
    IN  IF e >= 1 /\ e + 1 <= Len(s) /\ s[e + 1] = ":"
        THEN [matched |-> TRUE,
              g1 |-> SubSeq(s, 1, e),
              g2 |-> LStripWs(SubSeq(s, e + 2, Len(s)))]
        ELSE [matched |-> FALSE, g1 |-> <<>>, g2 |-> <<>>]

(***************************************************************************)
(* The body of the loop of parse_yarn_to_csv.                              *)
(***************************************************************************)
\* tag.lower().startswith('line:')
IsLineTag(tag) == StartsWith(Lower(tag), LinePrefix)

\* the loop over tags: [line_id, other_tags] after the tags from position k on
RECURSIVE TagLoop(_, _, _, _)
TagLoop(tags, k, line_id, other_tags) ==
    IF k > Len(tags) THEN [line_id |-> line_id, other_tags |-> other_tags]
    ELSE IF IsLineTag(tags[k])
         THEN TagLoop(tags, k + 1, tags[k], other_tags)
         ELSE TagLoop(tags, k + 1, line_id, Append(other_tags, tags[k]))

\* the loop with a break at the first identifier tag found: later ones are
\* not examined as identifiers
RECURSIVE TagLoopFirst(_, _, _, _)
TagLoopFirst(tags, k, line_id, other_tags) ==
    IF k > Len(tags) THEN [line_id |-> line_id, other_tags |-> other_tags]
    ELSE IF IsLineTag(tags[k]) /\ line_id = <<>>
         THEN TagLoopFirst(tags, k + 1, tags[k], other_tags)
         ELSE IF IsLineTag(tags[k])
              THEN TagLoopFirst(tags, k + 1, line_id, other_tags)
              ELSE TagLoopFirst(tags, k + 1, line_id, Append(other_tags, tags[k]))

SplitTagsFirst(tags) == TagLoopFirst(tags, 1, <<>>, <<>>)

\* the loop keeping an identifier tag it overwrites among the other tags
RECURSIVE TagLoopKeep(_, _, _, _)
TagLoopKeep(tags, k, line_id, other_tags) ==
    IF k > Len(tags) THEN [line_id |-> line_id, other_tags |-> other_tags]
    ELSE IF IsLineTag(tags[k])
         THEN TagLoopKeep(tags, k + 1, tags[k],
                          IF line_id = <<>> THEN other_tags
                          ELSE Append(other_tags, line_id))
         ELSE TagLoopKeep(tags, k + 1, line_id, Append(other_tags, tags[k]))

SplitTagsKeep(tags) == TagLoopKeep(tags, 1, <<>>, <<>>)

SplitTags(tags) == TagLoop(tags, 1, <<>>, <<>>)

\* f"auto_id_{line_counter}"
AutoId(n) == AutoPrefix \o Decimal(n)

\* the increment placed after the empty-text guard
NextCounterAfterGuard(line_id, text, counter) ==
    IF line_id = <<>> /\ text # <<>> THEN counter + 1 ELSE counter

\* the increment left out
NextCounterStuck(line_id, text, counter) == counter

\* line_counter after a line whose tag loop left line_id and whose tag-stripped
\* text is text
NextCounter(line_id, text, counter) == IF line_id = <<>> THEN counter + 1 ELSE counter

\* is_choice
IsChoice(text) == StartsWith(text, ChoicePrefix)

\* the text of a choice: arrows stripped, conditions removed
ChoiceText(text) == Strip(SubCond(Strip(LStripChars(text, {"-", ">"}))))

\* `if match` alone
UseSpeakerAlways(matched, is_choice) == matched

\* `if match and not is_choice`
UseSpeaker(matched, is_choice) == matched /\ ~is_choice

\* character_name and text as written, from the tag-stripped text
NameAndText(text) ==
    LET is_choice == IsChoice(text)
        t1 == IF is_choice THEN ChoiceText(text) ELSE text
        m == SpeakerMatch(t1)
    IN  IF UseSpeaker(m.matched, is_choice)
        THEN [character_name |-> Strip(m.g1), text |-> Strip(m.g2)]
        ELSE [character_name |-> <<>>, text |-> t1]

\* only comments are skipped
IsSkippedComment(line) == StartsWith(line, CommentPrefix)

\* whether a body line is a comment or a command
IsSkipped(line) == StartsWith(line, CommentPrefix) \/ StartsWith(line, CommandPrefix)

\* whether the line is dropped after its identifier was assigned
EmptyGuard(text) == text = <<>>

\* A body line (in_body, not a marker): [counter, rows] where rows holds the row
\* written, if any.
BodyLine(line, title, counter) ==
    IF IsSkipped(line) THEN [counter |-> counter, rows |-> <<>>]
    ELSE LET tags == FindTags(line)
             text == Strip(SubTags(line))
             sel == SplitTags(tags)
             line_id == IF sel.line_id = <<>> THEN AutoId(counter) ELSE sel.line_id
             nt == NameAndText(text)
         IN  [counter |-> NextCounter(sel.line_id, text, counter),
              rows |-> IF EmptyGuard(text) THEN <<>>
                       ELSE << [line_id |-> line_id,
                                node_title |-> title,
                                character_name |-> nt.character_name,
                                text |-> nt.text,
                                tags |-> Join(sel.other_tags)] >>]

\* '===' leaving the title as it is
TitleKept(title) == title

\* current_node_title after a '===' line
TitleAfterEnd(title) == NO_TITLE

\* One iteration of the for loop on a raw line: the parse state after it and
\* the rows it wrote.
HandleLine(raw, title, body, counter) ==
    LET line == Strip(raw)
        same == [title |-> title, in_body |-> body, counter |-> counter, rows |-> <<>>]
    IN  IF line = <<>> THEN same
        ELSE IF StartsWith(line, TitlePrefix)
             THEN [same EXCEPT !.title = Strip(SplitColon1(line)), !.in_body = FALSE]
        ELSE IF line = BodyStart THEN [same EXCEPT !.in_body = TRUE]
        ELSE IF line = NodeEnd
             THEN [same EXCEPT !.in_body = FALSE, !.title = TitleAfterEnd(title)]
        ELSE IF body
             THEN LET b == BodyLine(line, title, counter)
                  IN  [same EXCEPT !.counter = b.counter, !.rows = b.rows]
        ELSE same

(***************************************************************************)
(* Inputs: the files the run is given.                                     *)
(***************************************************************************)
\* Lines of multi-line files: a blank line, two node headers, the markers,
\* a plain line, a tag-only line, a line with an explicit id, a comment.
ShortLines ==
    { <<" ">>,
      <<"t", "i", "t", "l", "e", ":", " ", "a">>,
      <<"t", "i", "t", "l", "e", ":", "b", " ">>,
      <<"-", "-", "-">>,
      <<"=", "=", "=">>,
      <<"a">>,
      <<"#", "t">>,
      <<"a", " ", "#", "l", "i", "n", "e", ":", "x">>,
      <<"/", "/", "c">> }

\* Pieces of single body lines: text, whitespace, a colon, a choice arrow, the
\* delimiters of a condition and a whole condition, tags and a bare '#'.
Tokens ==
    { <<"a">>, <<" ">>, <<":">>, <<"-", ">">>, <<"<", "<">>, <<">", ">">>,
      <<"<", "<", "c", ">", ">">>,
      <<" ", "#", "t">>,
      <<" ", "#", "l", "i", "n", "e", ":", "x">>,
      <<" ", "#", "L", "I", "N", "E", ":", "y">>,
      <<"#">> }

RECURSIVE Flatten(_)
Flatten(ts) == IF ts = <<>> THEN <<>> ELSE Head(ts) \o Flatten(Tail(ts))

TokenLines == { Flatten(ts) : ts \in UNION { [1..n -> Tokens] : n \in 1..MaxToks } }

\* The input files: up to MaxLines short lines, or a body of one token line.
Files ==
    UNION { [1..n -> ShortLines] : n \in 0..MaxLines }
    \cup { <<BodyStart, l>> : l \in TokenLines }

(***************************************************************************)
(* The run of parse_yarn_to_csv as a state machine.                        *)
(***************************************************************************)
VARIABLES
    input_exists,       \* whether input_path names a file
    file,               \* the lines of that file
    pc,                 \* "start", "read", "loop", "done", "exit"
    lines,              \* f.readlines()
    read_done,          \* the input was read to its end and closed
    next,               \* index in lines of the line the for loop takes next
    current_node_title,
    in_body,
    line_counter,
    out,                \* the output file: "absent", "open", "closed"
    written,            \* rows written to the output, the header first
    src,                \* history: src[k] is the index of the line of row k + 1
    exit_code           \* -1 while running

vars == <<input_exists, file, pc, lines, read_done, next, current_node_title,
          in_body, line_counter, out, written, src, exit_code>>

Init ==
    /\ input_exists \in BOOLEAN
    /\ file \in (IF input_exists THEN Files ELSE {<<>>})
    /\ pc = "start"
    /\ lines = <<>>
    /\ read_done = FALSE
    /\ next = 1
    /\ current_node_title = NO_TITLE
    /\ in_body = FALSE
    /\ line_counter = 0
    /\ out = "absent"
    /\ written = <<>>
    /\ src = <<>>
    /\ exit_code = -1

\* with open(input_path) as f: lines = f.readlines()
ReadInput ==
    /\ pc = "start"
    /\ input_exists
    /\ lines' = file
    /\ read_done' = TRUE
    /\ pc' = "read"
    /\ UNCHANGED <<input_exists, file, next, current_node_title, in_body,
                   line_counter, out, written, src, exit_code>>

\* except FileNotFoundError: print, sys.exit(1)
InputNotFound ==
    /\ pc = "start"
    /\ ~input_exists
    /\ exit_code' = 1
    /\ pc' = "exit"
    /\ UNCHANGED <<input_exists, file, lines, read_done, next, current_node_title,
                   in_body, line_counter, out, written, src>>

\* the output opened before the input is read
OpenOutputBeforeRead ==
    /\ pc = "start"
    /\ out = "absent"
    /\ out' = "open"
    /\ written' = <<header>>
    /\ UNCHANGED <<input_exists, file, pc, lines, read_done, next, current_node_title,
                   in_body, line_counter, src, exit_code>>

\* with open(output_path, 'w'): write the header, set up the parse state
OpenOutput ==
    /\ pc = "read"
    /\ out' = "open"
    /\ written' = <<header>>
    /\ current_node_title' = NO_TITLE
    /\ in_body' = FALSE
    /\ line_counter' = 0
    /\ pc' = "loop"
    /\ UNCHANGED <<input_exists, file, lines, read_done, next, src, exit_code>>

\* one iteration of `for line in lines`
LoopStep ==
    /\ pc = "loop"
    /\ next <= Len(lines)
    /\ LET r == HandleLine(lines[next], current_node_title, in_body, line_counter)
       IN  /\ current_node_title' = r.title
           /\ in_body' = r.in_body
           /\ line_counter' = r.counter
           /\ written' = written \o r.rows
           /\ src' = src \o [k \in 1..Len(r.rows) |-> next]
    /\ next' = next + 1
    /\ UNCHANGED <<input_exists, file, pc, lines, read_done, out, exit_code>>

\* the loop ends: the output is closed, the success message printed
Finish ==
    /\ pc = "loop"
    /\ next > Len(lines)
    /\ out' = "closed"
    /\ exit_code' = 0
    /\ pc' = "done"
    /\ UNCHANGED <<input_exists, file, lines, read_done, next, current_node_title,
                   in_body, line_counter, written, src>>

Next == ReadInput \/ InputNotFound \/ OpenOutput \/ LoopStep \/ Finish

Spec == Init /\ [][Next]_vars

(***************************************************************************)
(* What the properties speak of: the rows written and the lines they came  *)
(* from, read off the input independently of the loop's own variables.     *)
(***************************************************************************)
Max(S) == CHOOSE x \in S : \A y \in S : y <= x
Min(S) == CHOOSE x \in S : \A y \in S : x <= y

NRows == Len(src)
\* the k-th row after the header
Row(k) == written[k + 1]
\* the trimmed line row k came from, its '#' tokens and its tag-stripped text
RowLine(k) == Strip(lines[src[k]])
RowTags(k) == FindTags(RowLine(k))
RowText(k) == Strip(SubTags(RowLine(k)))

\* positions of the identifier tags among tags
LineTagIdx(tags) == { i \in 1..Len(tags) : IsLineTag(tags[i]) }

\* tags without the one at position p
RemoveAt(tags, p) == SubSeq(tags, 1, p - 1) \o SubSeq(tags, p + 1, Len(tags))

KeepOther(tag) == ~IsLineTag(tag)

\* line j of the input, trimmed, is a node header / a '===' / a '---'
IsTitleLine(j) == StartsWith(Strip(lines[j]), TitlePrefix)
IsEndLine(j) == Strip(lines[j]) = NodeEnd
IsStartLine(j) == Strip(lines[j]) = BodyStart
IsMarkerLine(j) == IsTitleLine(j) \/ IsEndLine(j) \/ IsStartLine(j)

\* the title in force when line i is read: that of the last header before it,
\* unless a '===' came since
ExpectedTitle(i) ==
    LET js == { j \in 1..(i - 1) : IsTitleLine(j) \/ IsEndLine(j) }
    IN  IF js = {} \/ IsEndLine(Max(js)) THEN NO_TITLE
        ELSE LET l == Strip(lines[Max(js)])
             IN  Strip(SubSeq(l, Len(TitlePrefix) + 1, Len(l)))

\* line i is read inside a body: the last marker before it is a '---'
InBodyAt(i) ==
    LET js == { j \in 1..(i - 1) : IsMarkerLine(j) }
    IN  js # {} /\ IsStartLine(Max(js))

\* line i is a body line that is no comment or command and has no identifier tag
Counted(i) ==
    LET l == Strip(lines[i])
    IN  /\ l # <<>>
        /\ ~IsMarkerLine(i)
        /\ InBodyAt(i)
        /\ ~StartsWith(l, <<"/", "/">>)
        /\ ~StartsWith(l, <<"<", "<">>)
        /\ LineTagIdx(FindTags(l)) = {}

CountBefore(i) == Cardinality({ j \in 1..(i - 1) : Counted(j) })

DigitVal(c) == CHOOSE d \in 0..9 : DigitChar(d) = c

\* int(digits)
RECURSIVE DecimalValue(_)
DecimalValue(ds) ==
    IF ds = <<>> THEN 0
    ELSE 10 * DecimalValue(SubSeq(ds, 1, Len(ds) - 1)) + DigitVal(ds[Len(ds)])

IsAutoId(id) == StartsWith(id, AutoPrefix) /\ Len(id) > Len(AutoPrefix)
AutoNumber(id) == DecimalValue(SubSeq(id, Len(AutoPrefix) + 1, Len(id)))

\* positions in s where the two-character token tok stands
TokIdx(s, tok) == { i \in 1..(Len(s) - 1) : s[i] = tok[1] /\ s[i + 1] = tok[2] }

\* the text of a choice line once the arrows are stripped
ArrowStripped(text) == Strip(LStripChars(text, {"-", ">"}))

(***************************************************************************)
(* C1. Every row written has a non-empty text field (the final text, after *)
(* choice and speaker processing).  The code violates this: the empty-text *)
(* guard runs before the choice and speaker steps.                         *)
(***************************************************************************)
C1_TextNonEmpty == \A k \in 1..NRows : Row(k).text # <<>>

(***************************************************************************)
(* C2 as claimed. The identifier of a row whose line carries identifier    *)
(* tags is the FIRST such tag on the line.                                 *)
(***************************************************************************)
C2_FirstLineTag ==
    \A k \in 1..NRows :
        LET idx == LineTagIdx(RowTags(k))
        IN  idx # {} => Row(k).line_id = RowTags(k)[Min(idx)]

(***************************************************************************)
(* C2 amended. The identifier of a row whose line carries identifier tags  *)
(* is the LAST such tag on the line, verbatim (prefix and case kept).      *)
(***************************************************************************)
C2_LastLineTag ==
    \A k \in 1..NRows :
        LET idx == LineTagIdx(RowTags(k))
        IN  idx # {} => Row(k).line_id = RowTags(k)[Max(idx)]

\* a row from a line with two different identifier tags, one in upper case
C2_Witness ==
    \E k \in 1..NRows :
        LET idx == LineTagIdx(RowTags(k))
        IN  /\ Cardinality(idx) >= 2
            /\ RowTags(k)[Min(idx)] # RowTags(k)[Max(idx)]
            /\ ~StartsWith(Row(k).line_id, LinePrefix)

(***************************************************************************)
(* C3 as claimed. The tags field of a row is all the '#' tokens of its     *)
(* line in order, with only one identifier tag removed.                    *)
(***************************************************************************)
C3_OneTagRemoved ==
    \A k \in 1..NRows :
        LET idx == LineTagIdx(RowTags(k))
        IN  IF idx = {} THEN Row(k).tags = Join(RowTags(k))
            ELSE \E p \in idx : Row(k).tags = Join(RemoveAt(RowTags(k), p))

(***************************************************************************)
(* C3 amended. The tags field of a row is the '#' tokens of its line that  *)
(* do not begin with line: (case-insensitively), in their original order,  *)
(* joined with "; ": every identifier tag is removed, not only the chosen  *)
(* one, and no other tag is dropped.                                       *)
(***************************************************************************)
C3_NonLineTagsKept ==
    \A k \in 1..NRows : Row(k).tags = Join(SelectSeq(RowTags(k), KeepOther))

\* a row from a line with two identifier tags and another tag
C3_Witness ==
    \E k \in 1..NRows :
        /\ Cardinality(LineTagIdx(RowTags(k))) >= 2
        /\ Len(RowTags(k)) >= 3
        /\ Row(k).tags # <<>>

(***************************************************************************)
(* C4. The node_title of every row is the title of the last 'title:' line  *)
(* read before its line, or NO_TITLE when there is none or a '===' line    *)
(* was read since; the loop's current_node_title is that title too.        *)
(***************************************************************************)
C4_NodeTitle ==
    /\ \A k \in 1..NRows : Row(k).node_title = ExpectedTitle(src[k])
    /\ pc \in {"loop", "done"} => current_node_title = ExpectedTitle(next)

\* a row with NO_TITLE from a line read after a header and a later '==='
C4_Witness ==
    \E k \in 1..NRows :
        /\ Row(k).node_title = NO_TITLE
        /\ \E j \in 1..(src[k] - 1) : IsTitleLine(j)

(***************************************************************************)
(* C5. line_counter equals the number of body lines read so far that are   *)
(* neither comments/commands nor carry an identifier tag, discarded ones   *)
(* included; a row from the k-th such line has identifier auto_id_{k-1};   *)
(* the synthesized identifiers increase strictly in row order.             *)
(***************************************************************************)
C5_AutoIds ==
    /\ pc \in {"loop", "done"} => line_counter = CountBefore(next)
    /\ \A k \in 1..NRows :
           Counted(src[k]) => Row(k).line_id = AutoId(CountBefore(src[k]))
    /\ \A k1, k2 \in 1..NRows :
           (k1 < k2 /\ IsAutoId(Row(k1).line_id) /\ IsAutoId(Row(k2).line_id))
               => AutoNumber(Row(k1).line_id) < AutoNumber(Row(k2).line_id)

\* two rows with synthesized identifiers, with a number between them consumed
\* by a discarded line
C5_Witness ==
    \E k1, k2 \in 1..NRows :
        /\ k2 = k1 + 1
        /\ IsAutoId(Row(k1).line_id)
        /\ IsAutoId(Row(k2).line_id)
        /\ AutoNumber(Row(k2).line_id) > AutoNumber(Row(k1).line_id) + 1

(***************************************************************************)
(* C6 as claimed. No two rows carry the same line_id.                      *)
(***************************************************************************)
C6_AllUnique ==
    \A k1, k2 \in 1..NRows : k1 # k2 => Row(k1).line_id # Row(k2).line_id

(***************************************************************************)
(* C6 amended. Two rows carry the same line_id only when it is an explicit *)
(* identifier tag that both of their lines carry; synthesized identifiers  *)
(* are never repeated and never equal an explicit one.                     *)
(***************************************************************************)
C6_UniqueUnlessRepeatedTag ==
    \A k1, k2 \in 1..NRows :
        (k1 # k2 /\ Row(k1).line_id = Row(k2).line_id)
            => /\ IsLineTag(Row(k1).line_id)
               /\ \E i \in LineTagIdx(RowTags(k1)) : RowTags(k1)[i] = Row(k1).line_id
               /\ \E i \in LineTagIdx(RowTags(k2)) : RowTags(k2)[i] = Row(k2).line_id

\* two rows with the same explicit identifier and a row with a synthesized one
C6_Witness ==
    /\ \E k1, k2 \in 1..NRows : k1 # k2 /\ Row(k1).line_id = Row(k2).line_id
    /\ \E k \in 1..NRows : IsAutoId(Row(k).line_id)

(***************************************************************************)
(* C7. Nothing is written to the output, and it is not opened, before the  *)
(* input was read to its end; when the input does not exist the run goes   *)
(* from the start to exit code 1 with the output untouched.                *)
(***************************************************************************)
C7_OutputAfterRead ==
    /\ (out # "absent" \/ written # <<>>) => (read_done /\ lines = file)
    /\ ~input_exists =>
           /\ out = "absent" /\ written = <<>>
           /\ pc # "start" => (pc = "exit" /\ exit_code = 1)
    /\ exit_code = 1 => ~input_exists

\* the run has ended with exit code 1
C7_Witness == pc = "exit" /\ exit_code = 1 /\ ~input_exists /\ out = "absent"

(***************************************************************************)
(* C8. A step on a line that is empty after trimming, on a non-marker line *)
(* read while in_body is false, or on a body line starting with // or <<   *)
(* writes no row and leaves current_node_title, in_body and line_counter   *)
(* unchanged; no step taken while in_body is false writes a row.           *)
(***************************************************************************)
C8_Ignored ==
    /\ pc = "loop"
    /\ next <= Len(lines)
    /\ LET l == Strip(lines[next])
       IN  \/ l = <<>>
           \/ ~IsMarkerLine(next) /\ ~in_body
           \/ /\ ~IsMarkerLine(next)
              /\ in_body
              /\ StartsWith(l, <<"/", "/">>) \/ StartsWith(l, <<"<", "<">>)

C8_IgnoredLinesNoOp ==
    [][ /\ C8_Ignored =>
            UNCHANGED <<current_node_title, in_body, line_counter, written, src>>
        /\ (pc = "loop" /\ ~in_body) => written' = written ]_vars

\* a comment and a command were read inside a body after the counter advanced
C8_Witness ==
    /\ line_counter > 0
    /\ in_body
    /\ \E j \in 1..(next - 1) :
           /\ InBodyAt(j)
           /\ CountBefore(j) > 0
           /\ StartsWith(Strip(lines[j]), <<"/", "/">>)

(***************************************************************************)
(* C9 as claimed. On a choice line each condition is removed as the span   *)
(* from a << to the nearest >> after it, so the text outside conditions    *)
(* is kept.                                                                *)
(***************************************************************************)
C9_ShortestSpans ==
    \A k \in 1..NRows :
        IsChoice(RowText(k)) =>
            Row(k).text = Strip(SubCondShortest(ArrowStripped(RowText(k))))

(***************************************************************************)
(* C9 amended. On a choice line, after the leading - and > characters are  *)
(* stripped, everything from the first << to the last >> after it is       *)
(* removed in one piece (text between two conditions included) and the     *)
(* result trimmed; with no << followed later by >> the text is unmodified. *)
(***************************************************************************)
C9_FirstToLast ==
    \A k \in 1..NRows :
        IsChoice(RowText(k)) =>
            LET t == ArrowStripped(RowText(k))
                opens == TokIdx(t, <<"<", "<">>)
                closes == IF opens = {} THEN {}
                          ELSE { j \in TokIdx(t, <<">", ">">>) : j >= Min(opens) + 2 }
            IN  IF closes = {} THEN Row(k).text = t
                ELSE Row(k).text =
                         Strip(SubSeq(t, 1, Min(opens) - 1)
                               \o SubSeq(t, Max(closes) + 2, Len(t)))

\* a choice row whose line holds two conditions with text between them
C9_Witness ==
    \E k \in 1..NRows :
        /\ IsChoice(RowText(k))
        /\ LET t == ArrowStripped(RowText(k))
           IN  \E i1, i2 \in TokIdx(t, <<"<", "<">>) :
                   \E j1, j2 \in TokIdx(t, <<">", ">">>) :
                       /\ i1 + 2 <= j1 /\ j1 + 3 <= i2 /\ i2 + 2 <= j2
                       /\ ~IsSpace(t[j1 + 2])

(***************************************************************************)
(* C10. On a non-choice row whose tag-stripped text has a first colon that *)
(* is not its first character, character_name is the trimmed part before   *)
(* that colon and text the trimmed part after it; on a non-choice row with *)
(* no colon or a leading colon, character_name is empty and text is the    *)
(* tag-stripped text; on a choice row character_name is empty and the text *)
(* is the choice text, not split at a colon.                               *)
(***************************************************************************)
C10_Speaker ==
    \A k \in 1..NRows :
        LET t == RowText(k)
            p == IndexFrom(t, ":", 1)
        IN  IF StartsWith(t, <<"-", ">">>)
            THEN Row(k).character_name = <<>> /\ Row(k).text = ChoiceText(t)
            ELSE IF p > 1
                 THEN /\ Row(k).character_name = Strip(SubSeq(t, 1, p - 1))
                      /\ Row(k).text = Strip(SubSeq(t, p + 1, Len(t)))
                 ELSE Row(k).character_name = <<>> /\ Row(k).text = t

\* a choice row whose text holds a colon after a non-colon character
C10_Witness ==
    \E k \in 1..NRows :
        /\ StartsWith(RowText(k), <<"-", ">">>)
        /\ IndexFrom(Row(k).text, ":", 1) > 1
        /\ IndexFrom(Row(k).text, ":", 1) < Len(Row(k).text)

====
